---- MODULE Spec2Model ----
(***************************************************************************)
(* Model of the overlay sequencing controller                              *)
(* (src/src/controller/OverlayController.ts).                              *)
(*                                                                         *)
(* One TLA+ action per public method, transport handler, promise           *)
(* continuation, audio event and timer callback.  Every handler is a       *)
(* function from the controller state (a record) to the controller state;  *)
(* the helper methods (_set, _setBatch, _clearTimer, _stopAudio, ...) are  *)
(* operators composed exactly in the order the code calls them.            *)
(*                                                                         *)
(* Time is abstracted: an armed timer may fire at any moment and a TTS     *)
(* request may settle at any moment; each timer keeps the delay it was     *)
(* armed with.  A pending play() promise may reject at any moment.  When   *)
(* the element is paused or fails while its play() promise is pending,     *)
(* the media element rejects the promise at once (AbortError /             *)
(* NotSupportedError): that rejection is delivered before any other event. *)
(***************************************************************************)
EXTENDS Integers, Sequences, FiniteSets, TLC

VARIABLES
    snapshot,          \* _snapshot: the display-state record
    notified,          \* number of _emit() calls made by the last handler
    seen,              \* the snapshots getSnapshot() returned to the listeners those calls ran
    amplitude,         \* _amplitude (0 = silent, 1 = non-silent)
    ampNotified,       \* number of _emitAmplitude() calls made by the last handler
    client,            \* _client: "none" or "live"
    queue,             \* _queue: sequence of items [type, id]
    processing,        \* _processing
    audio,             \* _audio: 0 (null) or index into audios
    timer,             \* _timer: 0 (null), -1 (handle of a fired timer) or a pending timer id
    destroyed,         \* _destroyed
    audioCtx,          \* _audioCtx is non-null
    analyser,          \* _analyser is non-null
    source,            \* _source is non-null
    connectedAudioEl,  \* _connectedAudioEl: 0 (null) or index into audios
    listeners,         \* _audioStopHandler/_audioPlayHandler are set
    rafId,             \* a frame callback is scheduled (_rafId non-null and pending)
    frames,            \* environment: number of frame callbacks pending (deps.requestAnimationFrame)
    timers,            \* environment: the pending timers armed through deps.setTimeout
    audios,            \* environment: every audio element created through deps.createAudio
    tts,               \* environment: per item, the generateTts requests and the awaiting continuation
    clientsCreated,    \* environment: number of deps.createClient calls
    started,           \* history: [id, live] of the items in the order they began processing
                       \*          (live: a transport client existed at that moment)
    finishLog,         \* history: ids passed to _finishItem, in order
    ackLog,            \* history: ids emitted as talk:done, in order
    ackView,           \* history: the controller as it was at each talk:done of the last handler
    nextId,            \* environment: id the next enqueued item will carry
    lastOp             \* history: the last handler that ran ("timeout:..." for a safety timer)

vars == <<snapshot, notified, seen, amplitude, ampNotified, client, queue, processing,
          audio, timer, destroyed, audioCtx, analyser, source, connectedAudioEl,
          listeners, rafId, frames, timers, audios, tts, clientsCreated, started,
          finishLog, ackLog, ackView, nextId, lastOp>>

\* ---------------------------------------------------------------------------
\* Bounds
\* ---------------------------------------------------------------------------
MaxItems == 2          \* Spec: items enqueued
MaxAudios == 3         \* Spec: audio elements created
MaxQueueItems == 3     \* SpecQueue: items enqueued
MaxQueueAudios == 1    \* SpecQueue: audio elements created
MaxStoreItems == 1     \* SpecStore: items enqueued
MaxStoreAudios == 2    \* SpecStore: audio elements created
MaxVolumeItems == 1    \* SpecVolume: items enqueued
MaxVolumeAudios == 3   \* SpecVolume: audio elements created
MaxAnalysisItems == 1  \* SpecAnalysis: items enqueued
MaxAnalysisAudios == 2 \* SpecAnalysis: audio elements created

\* ---------------------------------------------------------------------------
\* Program constants
\* ---------------------------------------------------------------------------
DEFAULT_VOLUME == 8
TIKTOK_VOLUME == 7
BUBBLE_GAP_MS == 1500
POST_AUDIO_DELAY_MS == 1500
ERROR_DELAY_MS == 3000
NO_TTS_DELAY_MS == 3000
MAX_AUDIO_TIMEOUT_MS == 30000
PHASE_TRANSITION_DELAY_MS == 500
CHAT_PHASE_TIMEOUT_MS == 15000

PROVIDER_VOLUME == [tiktok |-> TIKTOK_VOLUME]

\* PROVIDER_VOLUME is a plain object literal: a lookup of a key it does not
\* own goes on to Object.prototype, whose properties are functions/objects.
ObjectPrototype == {"constructor", "toString", "valueOf", "hasOwnProperty", "__proto__"}

\* a value that is not a number (an inherited function or object)
NotANumber == -1

\* volume of a media element that was never assigned one (1.0)
ELEMENT_VOLUME == 10

\* Volumes are in tenths (0.7 -> 7, 0.8 -> 8); "undefined" is a missing
\* provider, which is falsy like the empty string.  The ?? operator replaces
\* only null/undefined, so an inherited property is returned as it is.
volumeForProvider(provider) ==
    IF provider \notin {"undefined", ""}
    THEN IF provider \in DOMAIN PROVIDER_VOLUME THEN PROVIDER_VOLUME[provider]
         ELSE IF provider \in ObjectPrototype THEN NotANumber
         ELSE DEFAULT_VOLUME
    ELSE DEFAULT_VOLUME

\* ---------------------------------------------------------------------------
\* Input domains
\* ---------------------------------------------------------------------------
ItemIds == 1..(MaxItems + MaxQueueItems + MaxStoreItems + MaxVolumeItems + MaxAnalysisItems)
ItemTypes == {"talk", "reply-turn"}
\* The provider of a role is fixed by the deployment (TTS_BOT_PROVIDER,
\* TTS_CHAT_PROVIDER); a request yields that provider's audio, null, or throws.
TTS_BOT_PROVIDER == "openai"
TTS_CHAT_PROVIDER == "tiktok"
\* The provider names a TtsResult can carry (TtsResult.provider is a string,
\* generateTts is an injected dependency); "undefined" is a result without one.
Providers ==
    {"openai", "tiktok", "unknown", "TikTok", "constructor", "undefined"}
TtsOutcomes(role) ==
    {IF role = "bot" THEN TTS_BOT_PROVIDER ELSE TTS_CHAT_PROVIDER, "null", "throw"}
StatusInputs == {"sleep", "active"}
AmpLevels == {0, 1}

initialSnapshot ==
    [connected |-> FALSE, status |-> "sleep", turnPhase |-> "idle", currentTurn |-> 0,
     currentMessage |-> 0, queueLength |-> 0, showAll |-> FALSE]

\* calls: how many times deps.generateTts was called for the item
NoTts == [chat |-> "none", bot |-> "none", awaiting |-> FALSE, botTts |-> "null", calls |-> 0]

\* ---------------------------------------------------------------------------
\* The controller state as one record, so that handlers compose
\* ---------------------------------------------------------------------------
State ==
    [snapshot |-> snapshot, notified |-> notified, seen |-> seen, amplitude |-> amplitude,
     ampNotified |-> ampNotified, client |-> client, queue |-> queue,
     processing |-> processing, audio |-> audio, timer |-> timer,
     destroyed |-> destroyed, audioCtx |-> audioCtx, analyser |-> analyser,
     source |-> source, connectedAudioEl |-> connectedAudioEl,
     listeners |-> listeners, rafId |-> rafId, frames |-> frames, timers |-> timers,
     audios |-> audios, tts |-> tts, clientsCreated |-> clientsCreated,
     started |-> started, finishLog |-> finishLog, ackLog |-> ackLog,
     ackView |-> ackView]

\* Call by value: the state expression e is evaluated once, then handed to F.
ByValue(e, F(_)) == CHOOSE r \in {F(x) : x \in {e}} : TRUE

\* A handler starts with fresh per-handler notification counters.
Begin == [State EXCEPT !.notified = 0, !.seen = {}, !.ampNotified = 0, !.ackView = <<>>]

\* An element the controller has let go (handlers detached) whose play() promise
\* has settled can raise no further callback: its event history is forgotten.
\* A 'play' event queued on an element without the analysis listeners has no
\* listener to reach.
Forget(r) ==
    [r EXCEPT !.audios = [a \in 1..Len(r.audios) |->
        LET el == IF r.connectedAudioEl # a \/ ~r.listeners
                  THEN [r.audios[a] EXCEPT !.playEvt = FALSE]
                  ELSE r.audios[a]
        IN IF ~el.attached /\ el.play # "pending"
           THEN [el EXCEPT !.play = "settled", !.evt = "none"]
           ELSE el]]

Commit(r0, op) ==
    \E q \in {r0} : \E r \in {Forget(q)} :
    /\ snapshot' = r.snapshot
    /\ notified' = r.notified
    /\ seen' = r.seen
    /\ amplitude' = r.amplitude
    /\ ampNotified' = r.ampNotified
    /\ client' = r.client
    /\ queue' = r.queue
    /\ processing' = r.processing
    /\ audio' = r.audio
    /\ timer' = r.timer
    /\ destroyed' = r.destroyed
    /\ audioCtx' = r.audioCtx
    /\ analyser' = r.analyser
    /\ source' = r.source
    /\ connectedAudioEl' = r.connectedAudioEl
    /\ listeners' = r.listeners
    /\ rafId' = r.rafId
    /\ frames' = r.frames
    /\ timers' = r.timers
    /\ audios' = r.audios
    /\ tts' = r.tts
    /\ clientsCreated' = r.clientsCreated
    /\ started' = r.started
    /\ finishLog' = r.finishLog
    /\ ackLog' = r.ackLog
    /\ ackView' = r.ackView
    /\ lastOp' = op

\* ---------------------------------------------------------------------------
\* Snapshot mutation
\* ---------------------------------------------------------------------------
_emit(s) == [s EXCEPT !.notified = @ + 1, !.seen = @ \cup {s.snapshot}]

\* Faulty variant of _set: replaces the snapshot and notifies without comparing.
_set_alwaysEmits(s0, key, value) == ByValue(s0, LAMBDA s :
    _emit([s EXCEPT !.snapshot[key] = value]))

_set(s0, key, value) == ByValue(s0, LAMBDA s :
    IF s.snapshot[key] = value THEN s
    ELSE _emit([s EXCEPT !.snapshot[key] = value]))

\* Faulty variant of _setBatch: the fields are written one by one through _set.
_setBatch_fieldByField(s0, updates) == ByValue(s0, LAMBDA s :
    LET put(r, k) == IF k \in DOMAIN updates THEN _set(r, k, updates[k]) ELSE r
    IN put(put(put(put(put(s, "connected"), "turnPhase"), "currentTurn"),
               "currentMessage"), "queueLength"))

_setBatch(s0, updates) == ByValue(s0, LAMBDA s :
    IF \A k \in DOMAIN updates : s.snapshot[k] = updates[k] THEN s
    ELSE _emit([s EXCEPT !.snapshot =
                   [k \in DOMAIN s.snapshot |->
                       IF k \in DOMAIN updates THEN updates[k] ELSE s.snapshot[k]]]))

\* Faulty variant of _emitAmplitude: the snapshot listeners are called as well.
_emitAmplitude_alsoSnapshot(s) == _emit([s EXCEPT !.ampNotified = @ + 1])

_emitAmplitude(s) == [s EXCEPT !.ampNotified = @ + 1]

\* ---------------------------------------------------------------------------
\* Audio element and timer management
\* ---------------------------------------------------------------------------
\* Faulty variant of _stopAudio: the element is let go without pause().
_stopAudio_noPause(s0) == ByValue(s0, LAMBDA s :
    IF s.audio # 0
    THEN [s EXCEPT !.audios[s.audio].attached = FALSE, !.audio = 0]
    ELSE s)

_stopAudio(s0) == ByValue(s0, LAMBDA s :
    IF s.audio # 0
    THEN [s EXCEPT !.audios[s.audio].attached = FALSE,
                   !.audios[s.audio].paused = TRUE, !.audio = 0]
    ELSE s)

_clearTimer(s0) == ByValue(s0, LAMBDA s :
    IF s.timer # 0
    THEN [s EXCEPT !.timers = {t \in @ : t.id # s.timer}, !.timer = 0]
    ELSE s)

FreeTimerId(s) ==
    CHOOSE i \in 1..(Cardinality(s.timers) + 1) : \A t \in s.timers : t.id # i

\* this._timer = this._deps.setTimeout(cb, ms)
setTimer(s0, cb, item, aud, ms) == ByValue(s0, LAMBDA s :
    LET id == FreeTimerId(s)
    IN [s EXCEPT !.timers = @ \cup {[id |-> id, cb |-> cb, item |-> item, aud |-> aud, ms |-> ms]},
                 !.timer = id])

\* ---------------------------------------------------------------------------
\* Audio analysis
\* ---------------------------------------------------------------------------
\* deps.cancelAnimationFrame(_rafId) takes the pending callback away
_stopAmplitudeLoop(s0) ==
    ByValue(s0, LAMBDA s :
        IF s.rafId THEN [s EXCEPT !.rafId = FALSE, !.frames = @ - 1] ELSE s)

\* One run of tick(): sample, publish, schedule the next frame.
tick(s, amp) ==
    [_emitAmplitude([s EXCEPT !.amplitude = amp]) EXCEPT !.rafId = TRUE, !.frames = @ + 1]

\* Faulty variant of _startAmplitudeLoop: the running loop is not cancelled first.
_startAmplitudeLoop_noCancel(s0, amp) == ByValue(s0, LAMBDA s :
    IF ~s.analyser THEN s ELSE tick(s, amp))

_startAmplitudeLoop(s0, amp) == ByValue(s0, LAMBDA s :
    LET s1 == _stopAmplitudeLoop(s)
    IN IF ~s1.analyser THEN s1 ELSE tick(s1, amp))

_removeAudioListeners(s) == [s EXCEPT !.listeners = FALSE]

_disconnectAnalysis(s) ==
    LET s1 == _removeAudioListeners(s)
        s2 == _stopAmplitudeLoop(s1)
        s3 == [s2 EXCEPT !.source = FALSE, !.connectedAudioEl = 0, !.amplitude = 0]
    IN _emitAmplitude(s3)

\* srcOk = FALSE: createMediaElementSource throws (caught, early return).
_connectAnalysis(s0, a, srcOk, amp) == ByValue(s0, LAMBDA s :
    IF s.connectedAudioEl = a THEN s
    ELSE LET s1 == _removeAudioListeners(s)
             s2 == [s1 EXCEPT !.audioCtx = TRUE, !.source = FALSE, !.analyser = TRUE]
         IN IF ~srcOk THEN s2
            ELSE LET s3 == [s2 EXCEPT !.source = TRUE, !.connectedAudioEl = a]
                     s4 == _startAmplitudeLoop(s3, amp)
                 IN [s4 EXCEPT !.listeners = TRUE])

\* ---------------------------------------------------------------------------
\* Queue processing
\* ---------------------------------------------------------------------------
\* what the transport client finds when talk:done{id} reaches it
View(s, id) ==
    [id |-> id, timers |-> s.timers, timer |-> s.timer, audio |-> s.audio,
     playing |-> {a \in 1..Len(s.audios) : ~s.audios[a].paused},
     source |-> s.source, connectedAudioEl |-> s.connectedAudioEl,
     listeners |-> s.listeners, rafId |-> s.rafId, snapshot |-> s.snapshot]

_sendAck(s0, id) == ByValue(s0, LAMBDA s :
    IF s.client # "none"
    THEN [s EXCEPT !.ackLog = Append(@, id), !.ackView = Append(@, View(s, id))]
    ELSE s)

\* deps.revokeBlobUrl(url): the blob of audio element a (one blob per element)
revokeBlobUrl(s, a) == [s EXCEPT !.audios[a].revoked = @ + 1]

\* audio.volume = v throws a TypeError when v is not a finite number: the
\* handler ends there, whoever called it
VolumeThrows(provider) == volumeForProvider(provider) = NotANumber

\* deps.createBlobUrl + deps.createAudio + audio.volume = ...  (provider: the
\* provider of the TtsResult whose base64 the blob holds); the two callers
\* below assign onended/onerror (attached) and call play() (promise pending,
\* 'play' event queued: playEvt),
\* unless the volume assignment threw: then the element is left as constructed.
createAudio(s, kind, item, provider) ==
    [s EXCEPT !.audios = Append(@,
        IF VolumeThrows(provider)
        THEN [kind |-> kind, item |-> item, provider |-> provider,
              volume |-> ELEMENT_VOLUME, attached |-> FALSE,
              play |-> "settled", paused |-> TRUE, evt |-> "none", playEvt |-> FALSE,
              revoked |-> 0]
        ELSE [kind |-> kind, item |-> item, provider |-> provider,
              volume |-> volumeForProvider(provider),
              attached |-> TRUE, play |-> "pending", paused |-> FALSE,
              evt |-> "none", playEvt |-> TRUE, revoked |-> 0])]

\* Faulty variant of _processTalk: the message is not shown before the await.
_processTalk_noMessage(s, item) ==
    [s EXCEPT !.tts[item.id] = [NoTts EXCEPT !.bot = "pending", !.awaiting = TRUE,
                                            !.calls = s.tts[item.id].calls + 1]]

_processTalk(s, item) ==
    LET s1 == _set(s, "currentMessage", item.id)
    IN [s1 EXCEPT !.tts[item.id] = [NoTts EXCEPT !.bot = "pending", !.awaiting = TRUE,
                                            !.calls = s.tts[item.id].calls + 1]]

_processReplyTurn(s, item) ==
    LET s1 == _setBatch(s, [currentTurn |-> item.id, turnPhase |-> "chat"])
    IN [s1 EXCEPT !.tts[item.id] =
           [NoTts EXCEPT !.chat = "pending", !.bot = "pending", !.awaiting = TRUE,
                         !.calls = s.tts[item.id].calls + 2]]

\* Faulty variant of _processNext: takes the newest item (pop instead of shift).
_processNext_pop(s0) == ByValue(s0, LAMBDA s :
    IF s.destroyed \/ Len(s.queue) = 0
    THEN [s EXCEPT !.processing = FALSE]
    ELSE LET item == s.queue[Len(s.queue)]
             s1 == [s EXCEPT !.processing = TRUE, !.queue = SubSeq(@, 1, Len(@) - 1),
                             !.started = Append(@, [id |-> item.id, live |-> s.client # "none"])]
             s2 == _set(s1, "queueLength", Len(s1.queue))
         IN IF item.type = "talk" THEN _processTalk(s2, item) ELSE _processReplyTurn(s2, item))

\* Faulty variant of _processNext: queueLength is not published after the shift.
_processNext_keepsLength(s0) == ByValue(s0, LAMBDA s :
    IF s.destroyed \/ Len(s.queue) = 0
    THEN [s EXCEPT !.processing = FALSE]
    ELSE LET item == Head(s.queue)
             s1 == [s EXCEPT !.processing = TRUE, !.queue = Tail(@),
                             !.started = Append(@, [id |-> item.id, live |-> s.client # "none"])]
         IN IF item.type = "talk" THEN _processTalk(s1, item) ELSE _processReplyTurn(s1, item))

_processNext(s0) == ByValue(s0, LAMBDA s :
    IF s.destroyed \/ Len(s.queue) = 0
    THEN [s EXCEPT !.processing = FALSE]
    ELSE LET item == Head(s.queue)
             s1 == [s EXCEPT !.processing = TRUE, !.queue = Tail(@),
                             !.started = Append(@, [id |-> item.id, live |-> s.client # "none"])]
             s2 == _set(s1, "queueLength", Len(s1.queue))
         IN IF item.type = "talk" THEN _processTalk(s2, item) ELSE _processReplyTurn(s2, item))

\* Faulty variant of enqueue: starts processing without looking at _processing.
enqueue_unguardedStart(s0, item) == ByValue(s0, LAMBDA s :
    IF s.destroyed THEN s
    ELSE LET s1 == [s EXCEPT !.queue = Append(@, item)]
             s2 == _set(s1, "queueLength", Len(s1.queue))
         IN _processNext(s2))

\* Faulty variant of enqueue: the _destroyed early return is missing.
enqueue_noDestroyedReturn(s0, item) == ByValue(s0, LAMBDA s :
    LET s1 == [s EXCEPT !.queue = Append(@, item)]
        s2 == _set(s1, "queueLength", Len(s1.queue))
    IN IF ~s2.processing THEN _processNext(s2) ELSE s2)

\* Faulty variant of enqueue: queueLength is published before the push.
enqueue_staleLength(s0, item) == ByValue(s0, LAMBDA s :
    IF s.destroyed THEN s
    ELSE LET s1 == _set(s, "queueLength", Len(s.queue))
             s2 == [s1 EXCEPT !.queue = Append(@, item)]
         IN IF ~s2.processing THEN _processNext(s2) ELSE s2)

\* Faulty variant of enqueue: an item enqueued during the inter-item gap is started at once.
enqueue_startsInGap(s0, item) == ByValue(s0, LAMBDA s :
    IF s.destroyed THEN s
    ELSE LET s1 == [s EXCEPT !.queue = Append(@, item)]
             s2 == _set(s1, "queueLength", Len(s1.queue))
         IN IF ~s2.processing \/ (\E t \in s2.timers : t.cb = "processNext")
            THEN _processNext(s2) ELSE s2)

enqueue(s0, item) == ByValue(s0, LAMBDA s :
    IF s.destroyed THEN s
    ELSE LET s1 == [s EXCEPT !.queue = Append(@, item)]
             s2 == _set(s1, "queueLength", Len(s1.queue))
         IN IF ~s2.processing THEN _processNext(s2) ELSE s2)

\* Faulty variant of _finishItem: currentMessage is left out of the reset batch.
_finishItem_keepsMessage(s, id) ==
    LET s1 == _clearTimer(s)
        s2 == _stopAudio(s1)
        s3 == _disconnectAnalysis(s2)
        s4 == _setBatch(s3, [turnPhase |-> "idle", currentTurn |-> 0])
        s5 == _sendAck([s4 EXCEPT !.finishLog = Append(@, id)], id)
    IN setTimer(s5, "processNext", 0, 0, BUBBLE_GAP_MS)

\* Faulty variant of _finishItem: the acknowledgment is sent before the teardown.
_finishItem_ackFirst(s, id) ==
    LET s0 == _sendAck([s EXCEPT !.finishLog = Append(@, id)], id)
        s1 == _clearTimer(s0)
        s2 == _stopAudio(s1)
        s3 == _disconnectAnalysis(s2)
        s4 == _setBatch(s3, [turnPhase |-> "idle", currentTurn |-> 0, currentMessage |-> 0])
    IN setTimer(s4, "processNext", 0, 0, BUBBLE_GAP_MS)

_finishItem(s, id) ==
    LET s1 == _clearTimer(s)
        s2 == _stopAudio(s1)
        s3 == _disconnectAnalysis(s2)
        s4 == _setBatch(s3, [turnPhase |-> "idle", currentTurn |-> 0, currentMessage |-> 0])
        s5 == _sendAck([s4 EXCEPT !.finishLog = Append(@, id)], id)
    IN setTimer(s5, "processNext", 0, 0, BUBBLE_GAP_MS)

\* Faulty variant of _playAudio: the MAX_AUDIO_TIMEOUT_MS safety timer is not armed.
_playAudio_noSafetyTimer(s0, kind, item, provider, srcOk, amp) == ByValue(s0, LAMBDA s :
    LET s1 == _stopAudio(s)
        s2 == createAudio(s1, kind, item, provider)
        a  == Len(s2.audios)
        s3 == [s2 EXCEPT !.audio = a]
    IN IF VolumeThrows(provider) THEN s2 ELSE _connectAnalysis(s3, a, srcOk, amp))

_playAudio(s0, kind, item, provider, srcOk, amp) == ByValue(s0, LAMBDA s :
    LET s1 == _stopAudio(s)
        s2 == createAudio(s1, kind, item, provider)
        a  == Len(s2.audios)
        s3 == [s2 EXCEPT !.audio = a]
        s4 == _connectAnalysis(s3, a, srcOk, amp)
    IN IF VolumeThrows(provider) THEN s2
       ELSE setTimer(s4, "onFinish", item, a, MAX_AUDIO_TIMEOUT_MS))

\* done / fail closures of _playAudio for element a of item
\* Faulty variant of done: the safety timer is not cancelled first.
done_noClear(s, item, a) == setTimer(s, "onFinish", item, a, POST_AUDIO_DELAY_MS)

\* Faulty variant of done: the item is finished as soon as the audio ends.
done_finishAtOnce(s, item, a) == _finishItem(revokeBlobUrl(s, a), item)

done(s, item, a) == setTimer(_clearTimer(s), "onFinish", item, a, POST_AUDIO_DELAY_MS)

\* Faulty variant of fail: the fallback waits the post-audio delay.
fail_postAudioDelay(s, item, a) ==
    setTimer(_clearTimer(s), "onFinish", item, a, POST_AUDIO_DELAY_MS)

fail(s, item, a) == setTimer(_clearTimer(s), "onFinish", item, a, ERROR_DELAY_MS)

\* the onFinish closure passed to _playAudio: revoke the blob, then finish
onFinish(s, item, a) == _finishItem(revokeBlobUrl(s, a), item)

\* continuation of _processTalk after the await
\* Faulty variant of the _processTalk continuation: no _destroyed check after the await.
talkContinuation_noDestroyedCheck(s0, id, ttsResult, srcOk, amp) == ByValue(s0, LAMBDA s :
    IF ttsResult # "null"
    THEN _playAudio(s, "talk", id, ttsResult, srcOk, amp)
    ELSE setTimer(s, "finish", id, 0, NO_TTS_DELAY_MS))

\* Faulty variant of the _processTalk continuation: the text-only fallback waits
\* the inter-item gap instead of the no-TTS delay.
talkContinuation_gapDelay(s0, id, ttsResult, srcOk, amp) == ByValue(s0, LAMBDA s :
    IF s.destroyed THEN s
    ELSE IF ttsResult # "null"
         THEN _playAudio(s, "talk", id, ttsResult, srcOk, amp)
         ELSE setTimer(s, "finish", id, 0, BUBBLE_GAP_MS))

\* Faulty variant of the _processTalk continuation: a failed generation is retried.
talkContinuation_retry(s0, id, ttsResult, srcOk, amp) == ByValue(s0, LAMBDA s :
    IF s.destroyed THEN s
    ELSE IF ttsResult # "null"
         THEN _playAudio(s, "talk", id, ttsResult, srcOk, amp)
         ELSE [s EXCEPT !.tts[id] = [NoTts EXCEPT !.bot = "pending", !.awaiting = TRUE,
                                                  !.calls = s.tts[id].calls + 1]])

talkContinuation(s0, id, ttsResult, srcOk, amp) == ByValue(s0, LAMBDA s :
    IF s.destroyed THEN s
    ELSE IF ttsResult # "null"
         THEN _playAudio(s, "talk", id, ttsResult, srcOk, amp)
         ELSE setTimer(s, "finish", id, 0, NO_TTS_DELAY_MS))

startResponsePhase(s0, id, srcOk, amp) == ByValue(s0, LAMBDA s :
    LET s1 == _clearTimer(s)
        s2 == _set(s1, "turnPhase", "response")
        botTts == s2.tts[id].botTts
    IN IF botTts # "null"
       THEN _playAudio(s2, "bot", id, botTts, srcOk, amp)
       ELSE setTimer(s2, "finish", id, 0, NO_TTS_DELAY_MS))

onChatEnd(s, id, a) ==
    LET s1 == revokeBlobUrl(s, a)
        s2 == _clearTimer(s1)
    IN setTimer(s2, "startResponsePhase", id, 0, PHASE_TRANSITION_DELAY_MS)

\* continuation of _processReplyTurn after the await
\* Faulty variant of the _processReplyTurn continuation: the chat audio is
\* connected to the analyzer like talk and bot audio.
replyTurnContinuation_connectsChat(s0, id, chatTts, srcOk, amp) == ByValue(s0, LAMBDA s :
    IF s.destroyed THEN s
    ELSE IF chatTts # "null"
         THEN LET s1 == _stopAudio(s)
                  s2 == createAudio(s1, "chat", id, chatTts)
                  a  == Len(s2.audios)
                  s3 == [s2 EXCEPT !.audio = a]
                  s4 == _connectAnalysis(s3, a, srcOk, amp)
              IN IF VolumeThrows(chatTts) THEN s2
                 ELSE setTimer(s4, "startResponsePhase", id, 0, CHAT_PHASE_TIMEOUT_MS)
         ELSE startResponsePhase(s, id, srcOk, amp))

replyTurnContinuation(s0, id, chatTts, srcOk, amp) == ByValue(s0, LAMBDA s :
    IF s.destroyed THEN s
    ELSE IF chatTts # "null"
         THEN LET s1 == _stopAudio(s)
                  s2 == createAudio(s1, "chat", id, chatTts)
                  a  == Len(s2.audios)
                  s3 == [s2 EXCEPT !.audio = a]
              IN IF VolumeThrows(chatTts) THEN s2
                 ELSE setTimer(s3, "startResponsePhase", id, 0, CHAT_PHASE_TIMEOUT_MS)
         ELSE startResponsePhase(s, id, srcOk, amp))

\* Faulty variant of destroy: the transport client is kept.
destroy_keepsClient(s) ==
    LET s0 == [s EXCEPT !.destroyed = TRUE]
        s1 == _clearTimer(s0)
        s2 == _stopAudio(s1)
        s3 == _disconnectAnalysis(s2)
        s4 == [s3 EXCEPT !.audioCtx = FALSE, !.queue = <<>>, !.processing = FALSE]
    IN _setBatch(s4, [connected |-> FALSE, turnPhase |-> "idle", currentTurn |-> 0,
                      currentMessage |-> 0, queueLength |-> 0])

destroy(s) ==
    LET s0 == [s EXCEPT !.destroyed = TRUE]
        s1 == _clearTimer(s0)
        s2 == _stopAudio(s1)
        s3 == _disconnectAnalysis(s2)
        s4 == [s3 EXCEPT !.audioCtx = FALSE, !.client = "none", !.queue = <<>>,
                         !.processing = FALSE]
    IN _setBatch(s4, [connected |-> FALSE, turnPhase |-> "idle", currentTurn |-> 0,
                      currentMessage |-> 0, queueLength |-> 0])

\* Faulty variant of connect: the early return looks at _destroyed only.
connect_noClientCheck(s0) == ByValue(s0, LAMBDA s :
    IF s.destroyed THEN s
    ELSE [s EXCEPT !.client = "live", !.clientsCreated = @ + 1])

connect(s0) == ByValue(s0, LAMBDA s :
    IF s.client # "none" \/ s.destroyed THEN s
    ELSE [s EXCEPT !.client = "live", !.clientsCreated = @ + 1])

setStatus(s, status) == _set(s, "status", status)

setShowAll(s, showAll) == _set(s, "showAll", showAll)

\* the 'ended'/'pause' listener wired by _connectAnalysis
stopHandler(s) == _emitAmplitude([_stopAmplitudeLoop(s) EXCEPT !.amplitude = 0])

\* the 'play' listener wired by _connectAnalysis
playHandler(s, amp) == _startAmplitudeLoop(s, amp)

\* the analysis listeners are on element a
Wired(s, a) == s.listeners /\ s.connectedAudioEl = a

\* what generateTts yields to the continuation: a throw is caught and leaves null
TtsValue(o) == IF o \in Providers THEN o ELSE "null"

\* pause() or a load failure rejects a pending play() promise at once
AbortPending(a) ==
    /\ audios[a].play = "pending"
    /\ audios[a].paused \/ audios[a].evt = "error"

\* no promise rejection is owed: the event loop is free to run another task
Quiescent == \A a \in 1..Len(audios) : ~AbortPending(a)

\* ---------------------------------------------------------------------------
\* Initial state: a freshly constructed controller
\* ---------------------------------------------------------------------------
Init ==
    /\ snapshot = initialSnapshot
    /\ notified = 0
    /\ seen = {}
    /\ amplitude = 0
    /\ ampNotified = 0
    /\ client = "none"
    /\ queue = <<>>
    /\ processing = FALSE
    /\ audio = 0
    /\ timer = 0
    /\ destroyed = FALSE
    /\ audioCtx = FALSE
    /\ analyser = FALSE
    /\ source = FALSE
    /\ connectedAudioEl = 0
    /\ listeners = FALSE
    /\ rafId = FALSE
    /\ frames = 0
    /\ timers = {}
    /\ audios = <<>>
    /\ tts = [i \in ItemIds |-> NoTts]
    /\ clientsCreated = 0
    /\ started = <<>>
    /\ finishLog = <<>>
    /\ ackLog = <<>>
    /\ ackView = <<>>
    /\ nextId = 1
    /\ lastOp = "init"

\* ---------------------------------------------------------------------------
\* Actions: public methods
\* ---------------------------------------------------------------------------
\* enqueue(item), called directly or by the 'talk' / 'reply-turn' transport handlers
Enqueue(ty) ==
    /\ Quiescent
    /\ nextId' = nextId + 1
    /\ Commit(enqueue(Begin, [type |-> ty, id |-> nextId]), "enqueue")

Connect ==
    /\ Quiescent
    /\ UNCHANGED nextId
    /\ Commit(connect(Begin), "connect")

Destroy ==
    /\ Quiescent
    /\ UNCHANGED nextId
    /\ Commit(destroy(Begin), "destroy")

SetStatus(status) ==
    /\ Quiescent
    /\ UNCHANGED nextId
    /\ Commit(setStatus(Begin, status), "setStatus")

SetShowAll(showAll) ==
    /\ Quiescent
    /\ UNCHANGED nextId
    /\ Commit(setShowAll(Begin, showAll), "setShowAll")

\* ---------------------------------------------------------------------------
\* Actions: transport events (handlers bound in connect)
\* ---------------------------------------------------------------------------
TransportConnected(c) ==
    /\ Quiescent
    /\ clientsCreated > 0
    /\ UNCHANGED nextId
    /\ Commit(_set(Begin, "connected", c), "transport:connected")

TransportStatus(status) ==
    /\ Quiescent
    /\ clientsCreated > 0
    /\ UNCHANGED nextId
    /\ Commit(_set(Begin, "status", status), "transport:status")

\* ---------------------------------------------------------------------------
\* Actions: TTS requests settling (the await in _processTalk / _processReplyTurn)
\* ---------------------------------------------------------------------------
\* The exploration creates at most maxAudios audio elements: a request yields
\* audio only while the elements its item can still create fit.  An item with
\* chat and bot audio can create three elements (the bot audio is created twice
\* when the chat element's pending play() is rejected after the chat-phase
\* safety timeout); any other item creates at most one.
AudioBudget(maxAudios, need) == Len(audios) + need <= maxAudios

TtsSettleTalk(i, o, srcOk, amp, maxAudios) ==
    /\ Quiescent
    /\ tts[i].awaiting
    /\ tts[i].chat = "none"
    /\ tts[i].bot = "pending"
    /\ o \in Providers => AudioBudget(maxAudios, 1)
    /\ UNCHANGED nextId
    /\ LET s1 == [Begin EXCEPT !.tts[i].bot = "settled", !.tts[i].awaiting = FALSE,
                               !.tts[i].botTts = TtsValue(o)]
       IN Commit(talkContinuation(s1, i, TtsValue(o), srcOk, amp), "tts:talk")

\* the await is over: the request objects are gone, the closure keeps chatTts/botTts
Settled(rec, botTts) ==
    [rec EXCEPT !.chat = "settled", !.bot = "settled", !.awaiting = FALSE, !.botTts = botTts]

\* Promise.all: the continuation runs when both requests have resolved, or as
\* soon as one rejects (then chatTts and botTts both keep their initial null).
TtsSettleTurn(i, role, o, srcOk, amp, maxAudios) ==
    /\ Quiescent
    /\ tts[i].awaiting
    /\ tts[i].chat # "none"
    /\ tts[i][role] = "pending"
    /\ o \in Providers =>
          AudioBudget(maxAudios, IF \E r \in {"chat", "bot"} : tts[i][r] \in Providers THEN 3 ELSE 1)
    /\ UNCHANGED nextId
    /\ LET rec == [tts[i] EXCEPT ![role] = o]
       IN IF o = "throw"
          THEN LET s1 == [Begin EXCEPT !.tts[i] = Settled(rec, "null")]
               IN Commit(replyTurnContinuation(s1, i, "null", srcOk, amp), "tts:turn")
          ELSE IF rec.chat = "pending" \/ rec.bot = "pending"
          THEN Commit([Begin EXCEPT !.tts[i] = rec], "tts:partial")
          ELSE LET s1 == [Begin EXCEPT !.tts[i] =
                              Settled(rec, TtsValue(rec.bot))]
               IN Commit(replyTurnContinuation(s1, i, TtsValue(rec.chat), srcOk, amp), "tts:turn")

\* ---------------------------------------------------------------------------
\* Actions: audio element events
\* ---------------------------------------------------------------------------
\* the play() promise resolves: playback has started; no controller callback
PlayResolved(a) ==
    /\ Quiescent
    /\ a \in 1..Len(audios)
    /\ audios[a].play = "pending"
    /\ ~audios[a].paused
    /\ audios[a].evt = "none"
    /\ UNCHANGED nextId
    /\ Commit([Begin EXCEPT !.audios[a].play = "resolved"], "play:resolved")

\* the play() promise rejects: .catch(fail) / .catch(onChatEnd) runs whether or
\* not the element is still the controller's _audio
PlayRejected(a) ==
    /\ a \in 1..Len(audios)
    /\ audios[a].play = "pending"
    /\ UNCHANGED nextId
    /\ LET s1 == [Begin EXCEPT !.audios[a].play = "rejected"]
       IN Commit(IF audios[a].kind = "chat" THEN onChatEnd(s1, audios[a].item, a)
                 ELSE fail(s1, audios[a].item, a), "play:rejected")

\* 'ended' on an element whose onended is attached
AudioEnded(a) ==
    /\ Quiescent
    /\ a \in 1..Len(audios)
    /\ audios[a].attached
    /\ audios[a].evt = "none"
    /\ audios[a].play = "resolved"
    /\ ~audios[a].paused
    /\ UNCHANGED nextId
    /\ LET s1 == [Begin EXCEPT !.audios[a].evt = "ended", !.audios[a].paused = TRUE]
           s2 == IF Wired(s1, a) THEN stopHandler(s1) ELSE s1
       IN Commit(IF audios[a].kind = "chat" THEN onChatEnd(s2, audios[a].item, a)
                 ELSE done(s2, audios[a].item, a), "audio:ended")

\* 'error' on an element whose onerror is attached
AudioError(a) ==
    /\ Quiescent
    /\ a \in 1..Len(audios)
    /\ audios[a].attached
    /\ audios[a].evt = "none"
    /\ UNCHANGED nextId
    /\ LET s1 == [Begin EXCEPT !.audios[a].evt = "error"]
       IN Commit(IF audios[a].kind = "chat" THEN onChatEnd(s1, audios[a].item, a)
                 ELSE fail(s1, audios[a].item, a), "audio:error")

\* ---------------------------------------------------------------------------
\* Actions: timers and animation frames
\* ---------------------------------------------------------------------------
\* the timer leaves the pending set; a handle to it kept in _timer becomes stale
Fired(t) ==
    [Begin EXCEPT !.timers = @ \ {t}, !.timer = IF @ = t.id THEN -1 ELSE @]

TimerFinish(t) ==
    /\ Quiescent
    /\ t \in timers
    /\ t.cb = "finish"
    /\ UNCHANGED nextId
    /\ Commit(_finishItem(Fired(t), t.item), "timer:finish")

TimerOnFinish(t) ==
    /\ Quiescent
    /\ t \in timers
    /\ t.cb = "onFinish"
    /\ UNCHANGED nextId
    /\ Commit(onFinish(Fired(t), t.item, t.aud),
              IF t.ms = MAX_AUDIO_TIMEOUT_MS THEN "timeout:onFinish" ELSE "timer:onFinish")

TimerStartResponsePhase(t, srcOk, amp) ==
    /\ Quiescent
    /\ t \in timers
    /\ t.cb = "startResponsePhase"
    /\ UNCHANGED nextId
    /\ Commit(startResponsePhase(Fired(t), t.item, srcOk, amp),
              IF t.ms = CHAT_PHASE_TIMEOUT_MS THEN "timeout:startResponsePhase"
              ELSE "timer:startResponsePhase")

TimerProcessNext(t) ==
    /\ Quiescent
    /\ t \in timers
    /\ t.cb = "processNext"
    /\ UNCHANGED nextId
    /\ Commit(_processNext(Fired(t)), "timer:processNext")

RafTick(amp) ==
    /\ Quiescent
    /\ frames > 0
    /\ UNCHANGED nextId
    /\ Commit(tick([Begin EXCEPT !.frames = @ - 1], amp), "raf:tick")

\* ---------------------------------------------------------------------------
\* Actions: media element events that reach only the analysis listeners
\* ---------------------------------------------------------------------------
\* the 'play' event queued by play() (or by a resumption) is dispatched
AudioPlay(a, amp) ==
    /\ Quiescent
    /\ a \in 1..Len(audios)
    /\ audios[a].playEvt
    /\ UNCHANGED nextId
    /\ LET s1 == [Begin EXCEPT !.audios[a].playEvt = FALSE]
       IN Commit(IF Wired(s1, a) THEN playHandler(s1, amp) ELSE s1, "audio:play")

\* the user agent pauses an element that is playing ('pause' event)
AudioPause(a) ==
    /\ Quiescent
    /\ a \in 1..Len(audios)
    /\ audios[a].attached
    /\ audios[a].play = "resolved"
    /\ ~audios[a].paused
    /\ audios[a].evt = "none"
    /\ UNCHANGED nextId
    /\ LET s1 == [Begin EXCEPT !.audios[a].paused = TRUE]
       IN Commit(IF Wired(s1, a) THEN stopHandler(s1) ELSE s1, "audio:pause")

\* the user agent resumes an element it had paused ('play' event queued)
AudioResume(a) ==
    /\ Quiescent
    /\ a \in 1..Len(audios)
    /\ audios[a].attached
    /\ audios[a].play = "resolved"
    /\ audios[a].paused
    /\ audios[a].evt = "none"
    /\ UNCHANGED nextId
    /\ Commit([Begin EXCEPT !.audios[a].paused = FALSE, !.audios[a].playEvt = TRUE],
              "audio:resume")

\* One step of the controller's environment, with the exploration's budgets.
\* status, showAll and connected are written only by their setters (and
\* connected by destroy) and read by no handler: their setters are in
\* NextStore only.
Step(maxItems, maxAudios) ==
    \/ \E ty \in ItemTypes : nextId <= maxItems /\ Enqueue(ty)
    \/ Connect
    \/ Destroy
    \/ \E i \in ItemIds, o \in TtsOutcomes("bot"), srcOk \in BOOLEAN, amp \in AmpLevels :
          TtsSettleTalk(i, o, srcOk, amp, maxAudios)
    \/ \E i \in ItemIds, role \in {"chat", "bot"} :
          \E o \in TtsOutcomes(role), srcOk \in BOOLEAN, amp \in AmpLevels :
             TtsSettleTurn(i, role, o, srcOk, amp, maxAudios)
    \/ \E a \in 1..Len(audios) : PlayResolved(a)
    \/ \E a \in 1..Len(audios) : PlayRejected(a)
    \/ \E a \in 1..Len(audios) : AudioEnded(a)
    \/ \E a \in 1..Len(audios) : AudioError(a)
    \/ \E t \in timers : TimerFinish(t)
    \/ \E t \in timers : TimerOnFinish(t)
    \/ \E t \in timers, srcOk \in BOOLEAN, amp \in AmpLevels :
          TimerStartResponsePhase(t, srcOk, amp)
    \/ \E t \in timers : TimerProcessNext(t)
    \/ \E amp \in AmpLevels : RafTick(amp)

Next == Step(MaxItems, MaxAudios)

\* The sequencing protocol.
Spec == Init /\ [][Next]_vars

NextQueue == Step(MaxQueueItems, MaxQueueAudios)

\* Longer queues, fewer audio elements.
SpecQueue == Init /\ [][NextQueue]_vars

NextStore ==
    \/ Step(MaxStoreItems, MaxStoreAudios)
    \/ \E st \in StatusInputs : SetStatus(st)
    \/ \E b \in BOOLEAN : SetShowAll(b)
    \/ \E c \in BOOLEAN : TransportConnected(c)
    \/ \E st \in StatusInputs : TransportStatus(st)

\* The whole public surface, snapshot setters and transport status events included.
SpecStore == Init /\ [][NextStore]_vars

\* what an injected generateTts can settle with
InjectedOutcomes == Providers \cup {"null", "throw"}

NextVolume ==
    \/ Step(MaxVolumeItems, MaxVolumeAudios)
    \/ \E i \in ItemIds, o \in InjectedOutcomes, srcOk \in BOOLEAN, amp \in AmpLevels :
          TtsSettleTalk(i, o, srcOk, amp, MaxVolumeAudios)
    \/ \E i \in ItemIds, role \in {"chat", "bot"} :
          \E o \in InjectedOutcomes, srcOk \in BOOLEAN, amp \in AmpLevels :
             TtsSettleTurn(i, role, o, srcOk, amp, MaxVolumeAudios)

\* One item, with a generateTts that may yield any provider name.
SpecVolume == Init /\ [][NextVolume]_vars

NextAnalysis ==
    \/ Step(MaxAnalysisItems, MaxAnalysisAudios)
    \/ \E a \in 1..Len(audios), amp \in AmpLevels : AudioPlay(a, amp)
    \/ \E a \in 1..Len(audios) : AudioPause(a)
    \/ \E a \in 1..Len(audios) : AudioResume(a)

\* One item, with the media element's play and pause events.
SpecAnalysis == Init /\ [][NextAnalysis]_vars

TypeOK ==
    /\ snapshot.turnPhase \in {"idle", "chat", "response"}
    /\ snapshot.queueLength \in 0..MaxQueueItems
    /\ audio \in 0..Len(audios)
    /\ Len(audios) <= MaxAudios + MaxQueueAudios + MaxStoreAudios
    /\ Cardinality(timers) <= 1

\* ---------------------------------------------------------------------------
\* Scheduling: an armed timer eventually fires, a TTS request eventually
\* settles, and the rejection of an aborted play() promise is delivered.
\* ---------------------------------------------------------------------------
TimerFires ==
    \E t \in timers :
       \/ TimerFinish(t)
       \/ TimerOnFinish(t)
       \/ \E srcOk \in BOOLEAN, amp \in AmpLevels : TimerStartResponsePhase(t, srcOk, amp)
       \/ TimerProcessNext(t)

TtsSettles ==
    \E i \in {j \in ItemIds : tts[j].awaiting} :
       \/ \E o \in TtsOutcomes("bot"), srcOk \in BOOLEAN, amp \in AmpLevels :
             TtsSettleTalk(i, o, srcOk, amp, MaxAudios)
       \/ \E role \in {"chat", "bot"} :
             \E o \in TtsOutcomes(role), srcOk \in BOOLEAN, amp \in AmpLevels :
                TtsSettleTurn(i, role, o, srcOk, amp, MaxAudios)

AbortDelivered == \E a \in 1..Len(audios) : AbortPending(a) /\ PlayRejected(a)

FairSpec ==
    Spec /\ WF_vars(TimerFires) /\ WF_vars(TtsSettles) /\ WF_vars(AbortDelivered)

\* ---------------------------------------------------------------------------
\* Properties
\* ---------------------------------------------------------------------------
Range(seq) == {seq[k] : k \in 1..Len(seq)}

Count(seq, x) == Cardinality({k \in 1..Len(seq) : seq[k] = x})

\* an item is on display
Displayed(sn) == sn.turnPhase # "idle" \/ sn.currentTurn # 0 \/ sn.currentMessage # 0

HasStarted(i) == \E k \in 1..Len(started) : started[k].id = i

Waiting(i) == \E k \in 1..Len(queue) : queue[k].id = i

\* C1: queue processing is strictly sequential.  In every step in which an
\* item begins processing (it is shown and its TTS is requested), every item
\* that began earlier has been finished: the snapshot is back to idle/null, no
\* earlier TTS request is awaited, no audio is owned, talk:done was emitted for
\* each earlier item that began with a transport client, and the step is the
\* firing of the inter-item gap timer (or an enqueue on a controller that is
\* not processing and has no timer pending).
C1_StrictlySequential ==
    [][Len(started') > Len(started) =>
          /\ Len(started') = Len(started) + 1
          /\ ~Displayed(snapshot)
          /\ audio = 0
          /\ \A k \in 1..Len(started) :
                /\ started[k].id \in Range(finishLog)
                /\ started[k].live => started[k].id \in Range(ackLog)
                /\ ~tts[started[k].id].awaiting
          /\ \/ lastOp' = "timer:processNext"
             \/ lastOp' = "enqueue" /\ ~processing /\ timers = {}]_vars

\* the second item has begun, on the gap timer, after a first acknowledged one
C1_Witness ==
    /\ ~destroyed
    /\ Len(started) = 2
    /\ started[1].live
    /\ lastOp = "timer:processNext"
    /\ Displayed(snapshot)

\* C2: on a connected controller that is not destroyed, talk:done is emitted
\* exactly once for every item that began processing: never twice, and once
\* the item is over (a later item began, or the controller is not processing)
\* not zero times.
C2_AckExactlyOnce ==
    \A k \in 1..Len(started) :
       (started[k].live /\ ~destroyed) =>
           /\ Count(ackLog, started[k].id) <= 1
           /\ (k < Len(started) \/ ~processing) => Count(ackLog, started[k].id) = 1

\* C3: the queue never stalls.  With timers firing and TTS requests settling,
\* every item that began processing is eventually finished (snapshot back to
\* idle/null, acknowledgment sent if a client existed) and every waiting item
\* eventually begins, unless the controller is destroyed.
C3_NeverStalls ==
    \A i \in 1..MaxItems :
       /\ (HasStarted(i) /\ i \notin Range(finishLog)) ~>
             \/ destroyed
             \/ /\ i \in Range(finishLog)
                /\ ~Displayed(snapshot)
                /\ \A k \in 1..Len(started) :
                      (started[k].id = i /\ started[k].live) => i \in Range(ackLog)
       /\ Waiting(i) ~> (destroyed \/ HasStarted(i))

\* an audio that started playing never ended nor failed: the audio safety timer
\* has finished its item, acknowledged it, and another item waits
C3_Witness ==
    /\ ~destroyed
    /\ lastOp = "timeout:onFinish"
    /\ \A a \in 1..Len(audios) : audios[a].play # "pending"
    /\ finishLog = <<1>>
    /\ ackLog = <<1>>
    /\ ~Displayed(snapshot)
    /\ Len(queue) = 1

\* C4: the queue is FIFO.  Items begin processing in the order they were
\* enqueued (ids are handed out in enqueue order), acknowledgments are emitted
\* in that order, and on a controller that is not destroyed no item is
\* skipped: the waiting items are exactly the next ones, in order.
C4_Fifo ==
    /\ \A k \in 1..Len(started) : started[k].id = k
    /\ \A j, k \in 1..Len(ackLog) : j < k => ackLog[j] <= ackLog[k]
    /\ ~destroyed =>
          /\ \A k \in 1..Len(queue) : queue[k].id = Len(started) + k
          /\ Len(started) + Len(queue) = nextId - 1

\* three items, two of them enqueued while the first was processing, all acknowledged
C4_Witness ==
    /\ ~destroyed
    /\ Len(started) = 3
    /\ ackLog = <<1, 2, 3>>

\* C5: every blob URL created for playback is revoked exactly once: never
\* twice, and once the controller has let go of the audio element (natural
\* end, error, play() rejection, safety timeout or destroy) not zero times.
C5_BlobRevokedOnce ==
    \A a \in 1..Len(audios) :
       /\ audios[a].revoked <= 1
       /\ a # audio => audios[a].revoked = 1

\* C6: destroy() is terminal for the display state: once destroyed, the
\* snapshot has turnPhase idle, no currentTurn, no currentMessage and
\* queueLength 0 in every later state.
C6_DestroyTerminal ==
    destroyed => ~Displayed(snapshot) /\ snapshot.queueLength = 0

\* C7: destroy() tears down the playback state and keeps it torn down: once
\* destroyed, no timer armed by the controller is pending, no audio element is
\* owned or playing, the analyzer is detached and no TTS request is awaited by
\* a continuation that would act.
C7_DestroyTearsDown ==
    destroyed =>
       /\ timers = {}
       /\ audio = 0
       /\ connectedAudioEl = 0
       /\ ~source
       /\ ~rafId
       /\ \A a \in 1..Len(audios) : audios[a].paused

\* C8: right after destroy() the snapshot equals the initial snapshot in
\* every field, whatever status and showAll were set before.
C8_DestroyResetsSnapshot ==
    lastOp = "destroy" => snapshot = initialSnapshot

\* C9: after destroy(), enqueue(item) and connect() are no-ops: the queue,
\* the snapshot, the timers, the audio elements, the TTS requests and the
\* transport client stay as they are and no listener is notified.
C9_NoOpAfterDestroy ==
    [][(destroyed /\ lastOp' \in {"enqueue", "connect"}) =>
          /\ UNCHANGED <<snapshot, amplitude, client, queue, processing, audio, timer,
                         timers, audios, tts, clientsCreated, started, finishLog, ackLog,
                         rafId, destroyed>>
          /\ queue' = <<>>
          /\ notified' = 0
          /\ ampNotified' = 0]_vars

\* enqueue was called on a controller destroyed while an item was processing
C9_Witness ==
    /\ destroyed
    /\ lastOp = "enqueue"
    /\ Len(started) = 1
    /\ nextId = 3

\* C10: setStatus, setShowAll and the transport's connect/disconnect/status
\* events after destroy() leave the snapshot unchanged and notify no listener
\* (_set notifies exactly when it changes the snapshot).
C10_IgnoredAfterDestroy ==
    (destroyed /\ lastOp \in {"setStatus", "setShowAll", "transport:connected",
                              "transport:status"})
       => notified = 0

\* C11: connect() is idempotent.  Over any sequence of connect() and destroy()
\* calls the client factory is invoked at most once (the handlers are bound
\* with the client, so at most once too), and a connect() on a controller that
\* has a client or is destroyed does no work.
C11_ConnectIdempotent ==
    [][/\ clientsCreated' <= 1
       /\ (lastOp' = "connect" /\ (client # "none" \/ destroyed)) =>
             /\ UNCHANGED <<snapshot, client, clientsCreated, queue, processing, timers,
                            audios, tts, started, finishLog, ackLog>>
             /\ notified' = 0]_vars

\* a second connect() on a controller whose client already carried an acknowledgment
C11_Witness ==
    /\ lastOp = "connect"
    /\ ackLog # <<>>
    /\ client = "live"
    /\ clientsCreated = 1

\* C12: a TTS request in flight when destroy() is called has its result
\* discarded: when it settles, no audio element (hence no blob URL) and no
\* timer is created, no snapshot field changes, no listener is notified and
\* no acknowledgment is emitted.
C12_InFlightTtsDiscarded ==
    [][(destroyed /\ lastOp' \in {"tts:talk", "tts:turn", "tts:partial"}) =>
          /\ UNCHANGED <<snapshot, audios, audio, timers, timer, ackLog, finishLog, queue,
                         processing, started, amplitude, rafId>>
          /\ notified' = 0
          /\ ampNotified' = 0]_vars

\* a request that yielded audio settled on a destroyed controller
C12_Witness ==
    /\ destroyed
    /\ lastOp \in {"tts:talk", "tts:turn"}
    /\ \E i \in ItemIds : tts[i].botTts # "null"

\* an audio element of the given kind is created by the step
Created(kind) == \E k \in (Len(audios) + 1)..Len(audios') : audios'[k].kind = kind

\* C13: on a controller that is not destroyed, turnPhase goes chat, response,
\* idle in that order: chat is entered only from idle by the start of a
\* reply-turn, chat is left only for response, response is entered only from
\* chat and left only for idle by the item's finish; chat audio is created
\* only in the chat phase and bot audio only in the response phase; and when
\* the TTS requests settle without chat audio the phase goes directly to
\* response.
C13_TurnPhaseOrder ==
    [][~destroyed' =>
          /\ (snapshot'.turnPhase = "chat" /\ snapshot.turnPhase # "chat") =>
                (snapshot.turnPhase = "idle" /\ Len(started') > Len(started))
          /\ (snapshot.turnPhase = "chat" /\ snapshot'.turnPhase # "chat") =>
                snapshot'.turnPhase = "response"
          /\ (snapshot'.turnPhase = "response" /\ snapshot.turnPhase # "response") =>
                snapshot.turnPhase = "chat"
          /\ (snapshot.turnPhase = "response" /\ snapshot'.turnPhase # "response") =>
                (snapshot'.turnPhase = "idle" /\ Len(finishLog') > Len(finishLog))
          /\ Created("chat") => (snapshot'.turnPhase = "chat" /\ lastOp' = "tts:turn")
          /\ Created("bot") => snapshot'.turnPhase = "response"
          /\ (lastOp' = "tts:turn" /\ ~Created("chat")) => snapshot'.turnPhase = "response"]_vars

\* C14: in a reply-turn each TTS request is judged on its own and a throw
\* counts as null for that request only: when the await ends on a controller
\* that is not destroyed, a bot request that had resolved with audio is the
\* botTts the response phase will play, and a chat request that had resolved
\* with audio has its chat audio created.
C14_TtsJudgedSeparately ==
    [][\A i \in ItemIds :
          (~destroyed /\ tts[i].awaiting /\ ~tts'[i].awaiting /\ tts[i].chat # "none") =>
             /\ tts[i].bot \in Providers => tts'[i].botTts = tts[i].bot
             /\ tts[i].chat \in Providers => Created("chat")]_vars

\* C15: enqueuing a talk item on a controller that is not processing shows
\* its message and notifies the snapshot listeners within the enqueue call,
\* while its TTS request is still pending; the message then stays displayed
\* until that item's finish (or destroy) clears it.
C15_MessageShownSynchronously ==
    [][/\ (lastOp' = "enqueue" /\ ~destroyed /\ ~processing /\ tts'[nextId].awaiting
              /\ tts'[nextId].chat = "none") =>
             /\ snapshot'.currentMessage = nextId
             /\ notified' >= 1
             /\ tts'[nextId].bot = "pending"
             /\ Len(audios') = Len(audios)
       /\ (snapshot.currentMessage # 0 /\ snapshot'.currentMessage # snapshot.currentMessage) =>
             /\ snapshot'.currentMessage = 0
             /\ \/ lastOp' = "destroy"
                \/ /\ Len(finishLog') = Len(finishLog) + 1
                   /\ finishLog'[Len(finishLog')] = snapshot.currentMessage]_vars

\* a talk item enqueued on an idle controller after an earlier item was finished
C15_Witness ==
    /\ lastOp = "enqueue"
    /\ ~destroyed
    /\ finishLog = <<1>>
    /\ snapshot.currentMessage = 2
    /\ tts[2].awaiting

\* a talk item whose TTS request yielded no audio (null or a throw)
TextOnlyTalk(i) == tts[i].chat = "none" /\ tts[i].bot = "settled" /\ tts[i].botTts = "null"

\* C16: when generateTts for a talk item throws or yields null (controller
\* not destroyed), no audio element is created and exactly one timer, with the
\* 3000 ms no-TTS delay, is armed as the controller's timer; that timer is
\* not cancelled except by destroy(), and the item's finish runs in the step
\* in which the timer fires and in no other step.
C16_TextOnlyTalk ==
    [][/\ \A i \in ItemIds :
             (lastOp' = "tts:talk" /\ ~destroyed /\ tts[i].awaiting /\ ~tts'[i].awaiting
                 /\ tts'[i].botTts = "null") =>
                /\ Len(audios') = Len(audios)
                /\ finishLog' = finishLog
                /\ Cardinality(timers') = 1
                /\ \A t \in timers' :
                      /\ t.cb = "finish" /\ t.item = i /\ t.ms = NO_TTS_DELAY_MS
                      /\ timer' = t.id
       /\ \A t \in timers :
             (t.cb = "finish" /\ TextOnlyTalk(t.item)) =>
                /\ t \notin timers' => lastOp' \in {"timer:finish", "destroy"}
                /\ lastOp' = "timer:finish" => finishLog' = Append(finishLog, t.item)
       /\ \A i \in ItemIds :
             (TextOnlyTalk(i) /\ Len(finishLog') > Len(finishLog)
                 /\ finishLog'[Len(finishLog')] = i) => lastOp' = "timer:finish"]_vars

\* the no-TTS timer of a talk item whose request threw or yielded null has fired
C16_Witness ==
    /\ ~destroyed
    /\ lastOp = "timer:finish"
    /\ finishLog = <<1>>
    /\ TextOnlyTalk(1)

\* C17: N consecutive enqueue calls on an idle controller.  An enqueue on a
\* controller that is not processing starts its item within the call and
\* leaves queueLength 0; every further enqueue starts nothing and raises
\* queueLength by one; so while the first item of a fresh controller still
\* awaits its TTS and nothing has finished, queueLength is the number of
\* enqueue calls minus one.
C17_QueueLengthAfterEnqueues ==
    [][/\ (lastOp' = "enqueue" /\ ~destroyed) =>
             IF ~processing
             THEN /\ started' = Append(started, [id |-> nextId, live |-> client # "none"])
                  /\ processing'
                  /\ Displayed(snapshot')
                  /\ tts'[nextId].awaiting
                  /\ snapshot'.queueLength = 0
             ELSE /\ started' = started
                  /\ snapshot'.queueLength = snapshot.queueLength + 1
                  /\ UNCHANGED <<tts, timers, audios>>
       /\ (~destroyed' /\ Len(started') = 1 /\ tts'[1].awaiting /\ finishLog' = <<>>) =>
             snapshot'.queueLength = (nextId' - 1) - 1]_vars

\* three consecutive enqueue calls: the first item is being processed, two wait
C17_Witness ==
    /\ ~destroyed
    /\ lastOp = "enqueue"
    /\ nextId = 4
    /\ Len(started) = 1
    /\ tts[1].awaiting
    /\ timers = {}
    /\ snapshot.queueLength = 2

\* C18: currentTurn and currentMessage are never both non-null, and both are
\* null during the gap between items (the gap timer is pending) and whenever
\* the controller is not processing.
C18_OneCurrentItem ==
    /\ ~(snapshot.currentTurn # 0 /\ snapshot.currentMessage # 0)
    /\ ((\E t \in timers : t.cb = "processNext") \/ ~processing) =>
          (snapshot.currentTurn = 0 /\ snapshot.currentMessage = 0)

\* a reply-turn is displayed after a talk item was displayed and finished
C18_Witness ==
    /\ ~destroyed
    /\ finishLog = <<1>>
    /\ tts[1].chat = "none"
    /\ snapshot.currentTurn = 2
    /\ snapshot.currentMessage = 0

\* C19: turnPhase changes only from idle to chat, from chat to response, from
\* response to idle, and to idle by destroy(); it is idle while a talk item
\* is displayed; and setStatus, setShowAll and the transport's
\* connect/disconnect/status events never change it.
C19_TurnPhaseTransitions ==
    [][/\ snapshot'.turnPhase # snapshot.turnPhase =>
             \/ snapshot.turnPhase = "idle" /\ snapshot'.turnPhase = "chat"
             \/ snapshot.turnPhase = "chat" /\ snapshot'.turnPhase = "response"
             \/ snapshot.turnPhase = "response" /\ snapshot'.turnPhase = "idle"
             \/ lastOp' = "destroy" /\ snapshot'.turnPhase = "idle"
       /\ snapshot'.currentMessage # 0 => snapshot'.turnPhase = "idle"
       /\ lastOp' \in {"setStatus", "setShowAll", "transport:connected", "transport:status"} =>
             snapshot'.turnPhase = snapshot.turnPhase]_vars

\* C20: at most one timer armed by the controller is pending, and it is the
\* one whose handle is the controller's _timer.
C20_OneTimer ==
    /\ Cardinality(timers) <= 1
    /\ \A t \in timers : timer = t.id

\* the safety timer was cancelled and the post-audio delay armed in its place
C20_Witness ==
    /\ lastOp = "audio:ended"
    /\ \E t \in timers : t.cb = "onFinish" /\ t.ms = POST_AUDIO_DELAY_MS /\ timer = t.id

\* C21: at most one audio element is owned by the controller and no other
\* element it created is still playing: every element other than _audio is
\* paused and has its ended/error handlers detached, the owned one is the only
\* one with handlers attached, and a step that attaches a new element creates
\* exactly one and leaves every earlier one paused and detached.
C21_OneAudioOwned ==
    /\ \A a \in 1..Len(audios) :
          /\ a # audio => (audios[a].paused /\ ~audios[a].attached)
          /\ audios[a].attached => a = audio
    /\ Cardinality({a \in 1..Len(audios) : ~audios[a].paused}) <= 1

\* the chat-phase safety timer replaced the chat audio, still owned, by bot audio
C21_Witness ==
    /\ ~destroyed
    /\ lastOp = "timeout:startResponsePhase"
    /\ Len(audios) = 2
    /\ audios[1].kind = "chat"
    /\ audios[1].revoked = 0
    /\ audios[2].kind = "bot"
    /\ audio = 2
    /\ ~audios[2].paused

\* talk or bot element a fails in the step: 'error' on the attached element,
\* or rejection of its pending play() promise
Fails(a) ==
    /\ audios[a].kind # "chat"
    /\ \/ lastOp' = "audio:error" /\ audios[a].attached /\ audios[a].evt = "none"
             /\ audios'[a].evt = "error"
       \/ lastOp' = "play:rejected" /\ audios[a].play = "pending"
             /\ audios'[a].play # "pending"

\* C22: an element error and a play() rejection on talk or bot audio are
\* handled the same way and without retry: after the step the only pending
\* timer is the 3000 ms error-delay timer of that element's item (the safety
\* timer is gone), it is the controller's timer, the item is not finished in
\* that step, no audio element is created and no TTS request is issued; the
\* firing of the error-delay timer runs the item's finish and again creates
\* no audio element and issues no TTS request for that item.
C22_PlaybackFailure ==
    [][/\ \A a \in 1..Len(audios) :
             Fails(a) =>
                /\ timers' = {[id |-> timer', cb |-> "onFinish", item |-> audios[a].item,
                               aud |-> a, ms |-> ERROR_DELAY_MS]}
                /\ Len(audios') = Len(audios)
                /\ tts' = tts
                /\ finishLog' = finishLog
                /\ snapshot' = snapshot
       /\ \A t \in timers :
             (t.cb = "onFinish" /\ t.ms = ERROR_DELAY_MS /\ t \notin timers') =>
                \/ lastOp' # "timer:onFinish"
                \/ /\ finishLog' = Append(finishLog, t.item)
                   /\ Len(audios') = Len(audios)
                   /\ tts'[t.item] = tts[t.item]]_vars

\* the play() promise of the bot audio, still owned, was rejected
C22_Witness ==
    /\ ~destroyed
    /\ lastOp = "play:rejected"
    /\ audio # 0
    /\ audios[audio].kind = "bot"
    /\ audios[audio].play = "rejected"
    /\ \E t \in timers : t.ms = ERROR_DELAY_MS /\ t.aud = audio

\* the 1500 ms post-audio timer of a talk or bot element
PostAudioTimer(t) == t.cb = "onFinish" /\ t.ms = POST_AUDIO_DELAY_MS

\* C23: after talk or bot audio ends naturally the item is not finished at
\* once.  The step of the 'ended' event leaves exactly one pending timer, the
\* 1500 ms post-audio timer of that item (the safety timer is cancelled), and
\* changes neither the snapshot nor the acknowledgments; while that timer is
\* pending the item stays displayed and currentMessage/currentTurn do not
\* change; the timer goes away only by firing or by destroy(); and its firing
\* finishes the item: snapshot reset, talk:done emitted if a client exists.
C23_PostAudioDelay ==
    [][/\ \A a \in 1..Len(audios) :
             (lastOp' = "audio:ended" /\ audios[a].kind # "chat" /\ audios[a].attached) =>
                /\ timers' = {[id |-> timer', cb |-> "onFinish", item |-> audios[a].item,
                               aud |-> a, ms |-> POST_AUDIO_DELAY_MS]}
                /\ snapshot' = snapshot
                /\ Displayed(snapshot')
                /\ finishLog' = finishLog
                /\ ackLog' = ackLog
       /\ \A t \in timers :
             PostAudioTimer(t) =>
                /\ Displayed(snapshot)
                /\ t \in timers' =>
                      /\ snapshot'.currentMessage = snapshot.currentMessage
                      /\ snapshot'.currentTurn = snapshot.currentTurn
                      /\ finishLog' = finishLog
                      /\ ackLog' = ackLog
                /\ t \notin timers' => lastOp' \in {"timer:onFinish", "destroy"}
                /\ lastOp' = "timer:onFinish" =>
                      /\ finishLog' = Append(finishLog, t.item)
                      /\ ~Displayed(snapshot')
                      /\ notified' = 1
                      /\ ackLog' = IF client # "none" THEN Append(ackLog, t.item) ELSE ackLog]_vars

\* the audio of a talk item has ended: its message is still displayed, the
\* item is neither finished nor acknowledged, the post-audio timer is pending
C23_Witness ==
    /\ ~destroyed
    /\ client # "none"
    /\ lastOp = "audio:ended"
    /\ audio # 0
    /\ audios[audio].kind = "talk"
    /\ audios[audio].evt = "ended"
    /\ snapshot.currentMessage = audios[audio].item
    /\ audios[audio].item \notin Range(finishLog)
    /\ audios[audio].item \notin Range(ackLog)
    /\ \E t \in timers : PostAudioTimer(t) /\ t.item = audios[audio].item

\* C24: every audio element the controller creates (talk, chat or bot) has
\* volume 0.7 when its TTS result's provider is exactly "tiktok" and 0.8 for
\* every other provider name and for a missing provider, and
\* volumeForProvider returns 0.7 for "tiktok", 0.8 for anything else and no
\* other value.
C24_VolumeForProvider ==
    \A a \in 1..Len(audios) :
       LET expected == IF audios[a].provider = "tiktok" THEN TIKTOK_VOLUME ELSE DEFAULT_VOLUME
       IN /\ volumeForProvider(audios[a].provider) = expected
          /\ audios[a].volume = expected

\* C25: the snapshot object is replaced exactly when a field changes value
\* (every replacement is followed by one _emit, which calls each subscribed
\* listener once; notified counts them).  A handler that leaves every field as
\* it was replaces nothing and notifies nobody; a handler that changes a field
\* notifies; a handler that notified has changed a field; setStatus,
\* setShowAll and the transport events notify once when they change their field
\* and not at all when the value is the one the snapshot already has.
C25_SnapshotReference ==
    [][/\ (snapshot' = snapshot) <=> (notified' = 0)
       /\ lastOp' \in {"setStatus", "setShowAll", "transport:connected", "transport:status"} =>
             /\ notified' \in {0, 1}
             /\ notified' = Cardinality({k \in DOMAIN snapshot : snapshot'[k] # snapshot[k]})]_vars

\* setStatus('active') on a snapshot whose status is already 'active'
C25_Witness ==
    /\ ~destroyed
    /\ lastOp = "setStatus"
    /\ snapshot.status = "active"
    /\ notified = 0

\* the fields the batches of _processReplyTurn, _finishItem and destroy write
Shown(sn) == <<sn.turnPhase, sn.currentTurn, sn.currentMessage>>

\* C26: a batch update is atomic.  The batch of _finishItem and the batch of
\* destroy() notify at most once, and not at all when no field changes;
\* the start of a reply-turn notifies once for currentTurn and turnPhase
\* together (the queueLength updates before it apart); and no listener observes a partially applied batch: in every step,
\* every snapshot a listener reads shows turnPhase, currentTurn and
\* currentMessage either all as before the step or all as after it, with
\* currentTurn never set while turnPhase is idle, and after a finish or a
\* destroy the listeners read only the final snapshot.
C26_BatchAtomic ==
    [][/\ \A sn \in seen' :
             /\ Shown(sn) \in {Shown(snapshot), Shown(snapshot')}
             /\ sn.currentTurn # 0 => sn.turnPhase # "idle"
       /\ lastOp' \in {"timer:finish", "timer:onFinish", "timeout:onFinish", "destroy"} =>
             /\ notified' <= 1
             /\ seen' \subseteq {snapshot'}
             /\ (snapshot' = snapshot) => notified' = 0
       /\ (Len(started') > Len(started) /\ snapshot'.currentTurn # 0) =>
             /\ notified' = Cardinality(seen')
             /\ {sn \in seen' : Shown(sn) # Shown(snapshot)} = {snapshot'}
             /\ snapshot'.turnPhase = "chat"]_vars

\* a reply-turn in its response phase was finished: one notification for the
\* three fields of the batch
C26_Witness ==
    /\ ~destroyed
    /\ lastOp \in {"timer:finish", "timer:onFinish"}
    /\ notified = 1
    /\ seen = {snapshot}
    /\ ~Displayed(snapshot)
    /\ finishLog = <<1>>
    /\ tts[1].chat = "settled"

\* C27: the amplitude channel is decoupled from the snapshot.  A sampling
\* tick and the reset to 0 on the element's 'ended' notify the amplitude
\* listeners only: the snapshot is not replaced and no snapshot listener runs;
\* and in any handler that publishes an amplitude (the reset of
\* _disconnectAnalysis within finish and destroy included) the snapshot
\* listeners run only for snapshot replacements: not at all if the snapshot is
\* unchanged, and each time they read a snapshot that differs from the one
\* before the handler.
C27_AmplitudeDecoupled ==
    [][/\ lastOp' = "raf:tick" =>
             (ampNotified' = 1 /\ notified' = 0 /\ snapshot' = snapshot)
       /\ (lastOp' = "audio:ended" /\ listeners) =>
             (ampNotified' >= 1 /\ amplitude' = 0 /\ notified' = 0 /\ snapshot' = snapshot)
       /\ ampNotified' > 0 =>
             /\ snapshot' = snapshot => notified' = 0
             /\ snapshot \notin seen'
             /\ notified' = Cardinality(seen')]_vars

\* a sampling tick published a non-silent amplitude while an item is displayed
C27_Witness ==
    /\ ~destroyed
    /\ lastOp = "raf:tick"
    /\ amplitude = 1
    /\ ampNotified = 1
    /\ notified = 0
    /\ Displayed(snapshot)

\* C28: stopping an audio element detaches its callbacks.  Once the
\* controller has stopped an element (by finish, by destroy, or by replacing
\* it), a later event of that element (ended, error, or the rejection of its
\* pending play() promise) changes no controller state: no timer is armed or
\* cancelled, no blob is revoked, no snapshot field changes, no listener is
\* notified, no acknowledgment is emitted and the item being processed is not
\* disturbed.
C28_StoppedAudioSilent ==
    [][\A a \in 1..Len(audios) :
          (~audios[a].attached /\ audios'[a] # audios[a]) =>
             /\ UNCHANGED <<snapshot, timers, timer, audio, ackLog, finishLog, queue,
                            processing, started, tts, amplitude>>
             /\ audios'[a].revoked = audios[a].revoked
             /\ Len(audios') = Len(audios)
             /\ notified' = 0]_vars

\* C29: in a reply-turn with chat audio, turnPhase becomes response only by
\* the firing of the 500 ms phase-transition timer, whichever way the chat
\* phase ends (chat audio ended, chat audio error, play() rejection, or the
\* 15000 ms chat-phase safety timeout).
C29_TransitionDelay ==
    [][(/\ snapshot'.turnPhase = "response"
        /\ snapshot.turnPhase = "chat"
        /\ \E a \in 1..Len(audios) :
              audios[a].kind = "chat" /\ audios[a].item = snapshot.currentTurn)
          => lastOp' = "timer:startResponsePhase"]_vars

\* C30: finish(id) runs its steps in a fixed order.  At the moment talk:done
\* is emitted no timer is pending, no audio element is owned or playing, the
\* analyzer is detached and the snapshot is already reset (turnPhase idle,
\* currentTurn and currentMessage null); the 1500 ms gap timer is armed after
\* the acknowledgment and is the only timer pending when finish returns; and
\* when the gap timer fires with an empty queue the controller becomes idle:
\* not processing, nothing displayed, nothing started, no timer pending.
C30_FinishOrder ==
    [][/\ \A k \in 1..Len(ackView') :
             LET v == ackView'[k]
             IN /\ v.timers = {}
                /\ v.timer = 0
                /\ v.audio = 0
                /\ v.playing = {}
                /\ ~v.source /\ v.connectedAudioEl = 0 /\ ~v.listeners /\ ~v.rafId
                /\ ~Displayed(v.snapshot)
                /\ v.snapshot = snapshot'
                /\ v.id = finishLog'[Len(finishLog')]
       /\ Len(finishLog') > Len(finishLog) =>
             /\ Len(ackView') = IF client # "none" THEN 1 ELSE 0
             /\ timers' = {[id |-> timer', cb |-> "processNext", item |-> 0, aud |-> 0,
                            ms |-> BUBBLE_GAP_MS]}
       /\ (lastOp' = "timer:processNext" /\ queue = <<>>) =>
             /\ ~processing'
             /\ timers' = {}
             /\ started' = started
             /\ ~Displayed(snapshot')]_vars

\* a talk item with audio was finished and acknowledged, then the gap timer
\* fired with an empty queue
C30_Witness ==
    /\ ~destroyed
    /\ lastOp = "timer:processNext"
    /\ ~processing
    /\ finishLog = <<1>>
    /\ ackLog = <<1>>
    /\ Len(audios) = 1
    /\ timers = {}

\* C31: generateTts is called only when an item starts processing.  A request
\* becomes pending only in the step in which its item begins, for an item that
\* had no request before: one request (role bot) for a talk item, two (chat
\* and bot, issued in the same step, before either settles) for a reply-turn;
\* an item waiting in the queue has no request, and generateTts is never
\* called again for an item, whatever its first requests yielded.
C31_TtsRequestedAtStart ==
    [][\A i \in ItemIds :
          /\ Waiting(i) => tts[i] = NoTts
          /\ tts'[i].calls # tts[i].calls =>
                /\ tts[i] = NoTts
                /\ Len(started') = Len(started) + 1
                /\ started'[Len(started')].id = i
                /\ tts'[i].calls = IF snapshot'.currentTurn = i THEN 2 ELSE 1
          /\ (\E role \in {"chat", "bot"} : tts'[i][role] = "pending" /\ tts[i][role] # "pending") =>
                /\ tts[i] = NoTts
                /\ Len(started') = Len(started) + 1
                /\ started'[Len(started')].id = i
                /\ tts'[i].bot = "pending"
                /\ tts'[i].awaiting
                /\ \/ tts'[i].chat = "none" /\ snapshot'.currentMessage = i
                   \/ tts'[i].chat = "pending" /\ snapshot'.currentTurn = i
          /\ (Len(started') > Len(started) /\ started'[Len(started')].id = i) =>
                /\ tts'[i].bot = "pending"
                /\ snapshot'.currentTurn = i => tts'[i].chat = "pending"
                /\ snapshot'.currentMessage = i => tts'[i].chat = "none"]_vars

\* a reply-turn began, with both requests pending, after the first item's
\* generation had failed and the item was finished
C31_Witness ==
    /\ ~destroyed
    /\ lastOp = "timer:processNext"
    /\ finishLog = <<1>>
    /\ tts[1].bot = "settled"
    /\ tts[1].botTts = "null"
    /\ tts[2].chat = "pending"
    /\ tts[2].bot = "pending"

\* C32: while an element is attached to the analyzer (the analysis listeners
\* are on it), its pause or ended event stops the sampling loop (no frame
\* callback stays scheduled) and sets amplitude to 0 with an amplitude
\* notification; a later play event on it restarts the loop; and at most one
\* frame callback is scheduled at any time, the one _rafId refers to.
C32_SamplingLoop ==
    [][/\ frames' = IF rafId' THEN 1 ELSE 0
       /\ \A a \in 1..Len(audios) :
             /\ (/\ listeners /\ connectedAudioEl = a
                 /\ \/ lastOp' = "audio:pause" /\ ~audios[a].paused /\ audios'[a].paused
                    \/ lastOp' = "audio:ended" /\ audios[a].attached) =>
                   /\ frames' = 0
                   /\ ~rafId'
                   /\ amplitude' = 0
                   /\ ampNotified' >= 1
             /\ (/\ listeners /\ connectedAudioEl = a
                 /\ lastOp' = "audio:play" /\ audios[a].playEvt /\ ~audios'[a].playEvt) =>
                   /\ frames' = 1
                   /\ rafId'
                   /\ ampNotified' = 1]_vars

\* the attached element was paused and resumed: the pause stopped the loop
\* and reset the amplitude, the play event that restarts it is queued
C32_Witness ==
    /\ ~destroyed
    /\ lastOp = "audio:resume"
    /\ audio # 0
    /\ listeners
    /\ connectedAudioEl = audio
    /\ ~audios[audio].paused
    /\ audios[audio].playEvt
    /\ ~rafId
    /\ frames = 0
    /\ amplitude = 0

\* C33: in every state reached after a public call or callback has returned,
\* the snapshot's queueLength is the number of items waiting in the queue (the
\* item being processed is not counted), and it is never negative.
C33_QueueLength ==
    /\ snapshot.queueLength = Len(queue)
    /\ snapshot.queueLength >= 0

\* the gap timer took the second of three items: one item still waits
C33_Witness ==
    /\ ~destroyed
    /\ lastOp = "timer:processNext"
    /\ Len(started) = 2
    /\ Len(queue) = 1
    /\ snapshot.queueLength = 1

\* C34: no item can be stranded in the queue.  Whenever the processing flag
\* is false after a call or callback has returned, the queue is empty, no
\* controller timer is pending, no audio element is owned, and the snapshot
\* shows turnPhase idle with currentTurn and currentMessage null.
C34_NothingStranded ==
    ~processing =>
       /\ queue = <<>>
       /\ timers = {}
       /\ timer \in {0, -1}
       /\ audio = 0
       /\ ~Displayed(snapshot)

\* C35: in every reachable state turnPhase is different from idle if and
\* only if currentTurn is non-null: a chat or response phase is never shown
\* without a turn to display, and a turn is never left displayed in the idle
\* phase.
C35_PhaseIffTurn ==
    (snapshot.turnPhase # "idle") <=> (snapshot.currentTurn # 0)

\* C36: whenever turnPhase is response, the reply-turn's chat audio is no
\* longer playing and is no longer the controller's active audio, on every
\* path into the response phase (chat audio ended, chat audio error, chat-phase
\* safety timeout) and whether or not bot audio is available.
C36_ChatAudioOverInResponse ==
    snapshot.turnPhase = "response" =>
       \A a \in 1..Len(audios) :
          audios[a].kind = "chat" => (audios[a].paused /\ audio # a)

\* C37: items still waiting in the queue when destroy() is called are
\* dropped.  From destroy() on the queue is empty, no item begins processing,
\* no item is shown as currentTurn or currentMessage, generateTts is not
\* called, and no talk:done is emitted, neither for a dropped item nor for the
\* item that was in progress.
C37_DroppedOnDestroy ==
    [][destroyed' =>
          /\ queue' = <<>>
          /\ started' = started
          /\ ackLog' = ackLog
          /\ ackView' = <<>>
          /\ snapshot'.currentTurn = 0
          /\ snapshot'.currentMessage = 0
          /\ \A i \in ItemIds : tts'[i].calls = tts[i].calls]_vars

\* destroyed with a client, one item in progress and one waiting; the timer a
\* late play() rejection armed has run the finish of the item in progress
C37_Witness ==
    /\ destroyed
    /\ clientsCreated = 1
    /\ started = <<[id |-> 1, live |-> TRUE]>>
    /\ nextId = 3
    /\ tts[2] = NoTts
    /\ finishLog = <<1>>
    /\ ackLog = <<>>

\* C38: enqueue called while an item is being processed (its TTS request in
\* flight, its audio playing, or during the inter-item gap) changes only the
\* queue and the snapshot's queueLength: the item is appended, queueLength
\* grows by one with one notification, and currentMessage, currentTurn,
\* turnPhase, the pending timer, the active audio, the TTS requests and the
\* analysis are untouched; no processing is started.
C38_EnqueueWhileProcessing ==
    [][(lastOp' = "enqueue" /\ ~destroyed /\ processing) =>
          /\ Len(queue') = Len(queue) + 1
          /\ SubSeq(queue', 1, Len(queue)) = queue
          /\ queue'[Len(queue')].id = nextId
          /\ snapshot' = [snapshot EXCEPT !.queueLength = Len(queue')]
          /\ notified' = 1
          /\ UNCHANGED <<timers, timer, audio, audios, tts, started, processing, finishLog,
                         ackLog, amplitude, rafId, frames, source, connectedAudioEl,
                         listeners, client, destroyed>>]_vars

\* enqueue during the inter-item gap: the first item is finished, the gap timer pending
C38_Witness ==
    /\ ~destroyed
    /\ lastOp = "enqueue"
    /\ processing
    /\ finishLog = <<1>>
    /\ Len(started) = 1
    /\ Len(queue) = 1
    /\ snapshot.queueLength = 1
    /\ \E t \in timers : t.cb = "processNext" /\ timer = t.id

\* C39: only talk and bot audio drive the mouth.  The chat audio of a
\* reply-turn is never the element attached to the analyzer, and throughout
\* the chat phase no sampling loop runs (no frame callback is scheduled) and
\* the amplitude is 0.
C39_ChatAudioNotAnalysed ==
    /\ \A a \in 1..Len(audios) : audios[a].kind = "chat" => connectedAudioEl # a
    /\ snapshot.turnPhase = "chat" =>
          /\ ~rafId
          /\ frames = 0
          /\ ~listeners
          /\ amplitude = 0

\* chat audio is playing in the chat phase of the second item, after a talk
\* item whose audio had been analysed
C39_Witness ==
    /\ ~destroyed
    /\ finishLog = <<1>>
    /\ analyser
    /\ snapshot.turnPhase = "chat"
    /\ audio # 0
    /\ audios[audio].kind = "chat"
    /\ audios[audio].play = "resolved"
    /\ ~audios[audio].paused

====
